---- MODULE Spec2Model ----
(***************************************************************************)
(* Ingestion pipeline of the scan sorter (package src/scansorter):         *)
(* watcher.py (process_once, watch_loop, _process_staging_all),            *)
(* file_ops.py (unique_path, acquire_to_staging, safe_remove) and          *)
(* processor.py (process_file), together with the scanner and the other    *)
(* processes that write, lock and remove files in the source directory;    *)
(* and, on their own, unique_path, find_date_in_text, parse_date and       *)
(* get_scan_datetime (dates.py), detect_topic (topics.py) and              *)
(* extract_text_from_pdf (ocr.py).                                         *)
(*                                                                         *)
(* A file name is a record [stem, sfx, ext]: sfx is the sequence of the    *)
(* numeric suffixes _i that unique_path has appended to the stem, so       *)
(* "a_1.pdf" is [stem |-> "a", sfx |-> <<1>>, ext |-> "pdf"].  A directory  *)
(* is a function from the names it holds to the content of each file: the  *)
(* number d of a document, or -d for a truncated copy of document d.       *)
(***************************************************************************)
EXTENDS Integers, Sequences, FiniteSets, TLC

VARIABLES
    source,      \* SCAN_DIR: name -> [doc, size, busy]
    staging,     \* STAGING_DIR: name -> content
    quarantine,  \* QUARANTINE_DIR: name -> content
    local,       \* LOCAL_BASE: <<topic, name>> -> content
    nas,         \* NAS_BASE: <<topic, name>> -> content
    nextDoc,     \* number of the next document the scanner will write
    vanished,    \* documents another actor removed from the source directory
    pc,          \* position of the watcher process
    mode,        \* "once" (process_once) or "watch" (watch_loop)
    exit,        \* how the last run ended: "run", "finished", "interrupted"
    todo,        \* entries of the os.listdir result not yet iterated
    seen,        \* watch_loop: seen
    current,     \* watch_loop: current
    cur,         \* the path in hand: src / p (source) or src_path (staging)
    s1,          \* first size sample
    target,      \* acquire_to_staging: target
    tries,       \* iteration count of the retry loop in progress
    ret,         \* the loop process_file was called from: "sweep" or "scan"
    pf,          \* record of the process_file invocation in progress / last made
    gate,        \* record of what the current pass did with each source name
    probe,       \* a directory and the unique_path calls made on it alone
    dateq,       \* a text, a file's timestamps and the dates inferred from them
    topicq,      \* a topic table, a haystack and what detect_topic returned
    pdfq,        \* a PDF, the libraries at hand and what extraction returned
    acq          \* one call of acquire_to_staging and the files it works on

fs    == <<source, staging, quarantine, local, nas>>
envh  == <<nextDoc, vanished, probe, dateq, topicq, pdfq, acq>>
ctl   == <<pc, mode, exit>>
loopv == <<todo, seen, current>>
filev == <<cur, s1, target, tries, ret>>
vars  == <<fs, envh, ctl, loopv, filev, pf, gate>>

-----------------------------------------------------------------------------
\* Bounds of the model.
MaxDocs == 2    \* documents the scanner writes
MaxSize == 2    \* sizes a file being written grows through: 1..MaxSize
MaxFiled == 2   \* files the local target root has room for
MaxSfx == 2     \* highest suffix _i among the names of the naming scenario
MaxTokens == 3  \* tokens in a text given to find_date_in_text

\* safe_remove(path, retries=10, ...) and acquire_to_staging(src_path, retries=20, ...)
RemoveRetries  == 10
AcquireRetries == 20

-----------------------------------------------------------------------------
\* File names.
Name(stem, sfx, ext) == [stem |-> stem, sfx |-> sfx, ext |-> ext]

NoName == Name("", <<>>, "")

\* Names under which files appear in the source directory.
SourceNames ==
    { Name("scan", <<>>, "PDF"), Name("memo", <<>>, "txt") }

\* The entries of the source directory that are directories: STAGING_DIR and
\* QUARANTINE_DIR lie inside SCAN_DIR.
SubDirs ==
    { Name("_staging", <<>>, ""), Name("_quarantine", <<>>, "") }

\* Path(p).suffix.lower()
Lower(ext) ==
    CASE ext = "PDF" -> "pdf"
      [] ext = "JPG" -> "jpg"
      [] OTHER -> ext

VALID_EXTS == {"pdf", "jpg", "jpeg", "png", "tif", "tiff", "bmp"}

\* A filter that lets every extension through.
ValidExtAny(n) == TRUE

\* Path(p).suffix.lower() in config.VALID_EXTS
ValidExt(n) == Lower(n.ext) \in VALID_EXTS

\* f"{stem}_{i}{suffix}"
WithSuffix(n, i) == [n EXCEPT !.sfx = Append(@, i)]

\* A variant that takes a suffix beyond every name there is, free but not
\* the first free one.
FirstFreeBeyond(names, n, i) == WithSuffix(n, Cardinality(names) + i)

RECURSIVE FirstFree(_, _, _)
FirstFree(names, n, i) ==
    IF WithSuffix(n, i) \notin names THEN WithSuffix(n, i) ELSE FirstFree(names, n, i + 1)

\* A variant that never probes the directory: the desired name is returned as is.
unique_path_noprobe(names, n) == n

\* A variant that tries the suffix _1 only, whether or not that name is taken.
unique_path_once(names, n) == IF n \notin names THEN n ELSE WithSuffix(n, 1)

\* unique_path(base_dir, filename), names being the names that exist in base_dir.
unique_path(names, n) ==
    IF n \notin names THEN n ELSE FirstFree(names, n, 1)

-----------------------------------------------------------------------------
\* Directories as functions.
Put(dir, k, v) == [x \in (DOMAIN dir) \cup {k} |-> IF x = k THEN v ELSE dir[x]]

Drop(dir, k) == [x \in (DOMAIN dir) \ {k} |-> dir[x]]

Empty == [x \in {} |-> 0]

\* Names present in the topic directory t of a target root.
NamesIn(root, t) == { k[2] : k \in { q \in DOMAIN root : q[1] = t } }

\* What the pipeline infers from a document: its topic (detect_topic) and its
\* effective date (find_date_in_text, else get_scan_datetime).
DocTopic(d) == IF d % 3 = 0 THEN "Sonstiges" ELSE "Strom"

DocDate(d) == "2024-05-05"

\* safe_name(f"{date_str}_{topic}{ext}")
BaseName(d, ext) == Name(DocDate(d) \o "_" \o DocTopic(d), <<>>, ext)

-----------------------------------------------------------------------------
\* The process_file invocation in hand: its argument, the document at that
\* path when it started, how it ended ("running", "returned", "raised"), and
\* which of its effects have happened.  nas is what became of the secondary
\* copy ("down": NAS_BASE was no directory, "copied", "failed"), mail what
\* became of the notification ("disabled", "incomplete", "sent", "failed").
NoPf == [path |-> NoName, doc |-> 0, result |-> "none", filed |-> NoName,
         nas |-> "none", mail |-> "none",
         released |-> FALSE, deleted |-> FALSE, quarantined |-> NoName,
         rmRet |-> "none"]

\* What the pass in hand (the one-shot pass, or one poll cycle) did with the
\* source names it listed: those it found unstable and those
\* acquire_to_staging gave up on.  skippedPrev is what the
\* previous poll cycle skipped (found unstable or gave up on).  leftover is
\* the staged files that were there when the pass began and on which no
\* process_file invocation of this pass has finished yet.  staged is the
\* source names acquire_to_staging moved into staging in this pass, and
\* stagedPrev those it moved in the previous poll cycle.
NoGate == [unstable |-> {}, failed |-> {}, skippedPrev |-> {}, leftover |-> {},
           staged |-> {}, stagedPrev |-> {}]

\* The naming scenario: a directory (the names in it), the desired filename,
\* the result of the first call of unique_path, of a second call made with
\* nothing created in between, whether a file was then created at the first
\* result, and the result of a call made after that.
NoProbe == [dir |-> {}, want |-> NoName, first |-> NoName, again |-> NoName,
            created |-> FALSE, after |-> NoName]

\* A date; None stands for the None that parse_date and find_date_in_text
\* return when they find no date.
Date(y, m, d) == [y |-> y, m |-> m, d |-> d]

None == Date(0, 0, 0)

\* The date scenario: a text, whether find_date_in_text has been called on
\* it, and what it returned; the creation and modification time of the file
\* the text came from (None when it cannot be read), whether process_file
\* has chosen the date to file under, and the date chosen.
NoDateQ == [text |-> <<>>, called |-> FALSE, res |-> None,
            ct |-> None, mt |-> None, picked |-> FALSE, eff |-> None]

\* The topic scenario: a topic table, the words of the haystack, whether
\* detect_topic has been called on them, and the pair it returned.
NoTopicQ == [table |-> <<>>, hay |-> {}, called |-> FALSE,
             topic |-> "", matched |-> <<>>]

\* The extraction scenario: which optional libraries were imported, what each
\* strategy does with the PDF, whether extract_text_from_pdf has been called,
\* and the text it returned.
NoPdfQ == [libs |-> {}, does |-> <<>>, called |-> FALSE, text |-> <<>>]

\* The staging scenario: whether the source file is at its path and whether
\* another process holds it open, whether STAGING_DIR exists and the names
\* in it, where the call of acquire_to_staging stands ("none", "loop",
\* "done"), its target, its attempts so far, and what it returned (NoName
\* stands for None).
NoAcq == [src |-> FALSE, busy |-> FALSE, dir |-> FALSE, names |-> {},
          at |-> "none", target |-> NoName, tries |-> 0, ret |-> NoName,
          staged |-> FALSE]

Init ==
    /\ source = Empty
    /\ staging = Empty
    /\ quarantine = Empty
    /\ local = Empty
    /\ nas = Empty
    /\ nextDoc = 1
    /\ vanished = {}
    /\ pc = "idle"
    /\ mode = "once"
    /\ exit = "finished"
    /\ todo = {}
    /\ seen = {}
    /\ current = {}
    /\ cur = NoName
    /\ s1 = 0
    /\ target = NoName
    /\ tries = 0
    /\ ret = "sweep"
    /\ pf = NoPf
    /\ gate = NoGate
    /\ probe = NoProbe
    /\ dateq = NoDateQ
    /\ topicq = NoTopicQ
    /\ pdfq = NoPdfQ
    /\ acq = NoAcq

-----------------------------------------------------------------------------
\* The scanner and the other processes working on the source directory.

\* A new document appears under a name free in the source directory, held
\* open by its writer.
Arrive(n) ==
    /\ nextDoc <= MaxDocs
    /\ n \notin DOMAIN source
    /\ source' = Put(source, n, [doc |-> nextDoc, size |-> 1, busy |-> TRUE])
    /\ nextDoc' = nextDoc + 1
    /\ UNCHANGED <<staging, quarantine, local, nas, vanished, probe, dateq, topicq, pdfq, acq, ctl,
                   loopv,
                   filev,
                   pf, gate>>

\* The writer appends to a file it holds open.
Grow(n) ==
    /\ n \in DOMAIN source
    /\ source[n].busy
    /\ source[n].size < MaxSize
    /\ source' = [source EXCEPT ![n].size = @ + 1]
    /\ UNCHANGED <<staging, quarantine, local, nas, envh, ctl, loopv, filev, pf, gate>>

\* The process holding the file open closes it.
Close(n) ==
    /\ n \in DOMAIN source
    /\ source[n].busy
    /\ source' = [source EXCEPT ![n].busy = FALSE]
    /\ UNCHANGED <<staging, quarantine, local, nas, envh, ctl, loopv, filev, pf, gate>>

\* Another process (scanner application, antivirus, sync client) opens the file.
Grab(n) ==
    /\ n \in DOMAIN source
    /\ ~source[n].busy
    /\ source' = [source EXCEPT ![n].busy = TRUE]
    /\ UNCHANGED <<staging, quarantine, local, nas, envh, ctl, loopv, filev, pf, gate>>

\* Another actor takes the file out of the source directory.
Vanish(n) ==
    /\ n \in DOMAIN source
    /\ source' = Drop(source, n)
    /\ vanished' = vanished \cup {source[n].doc}
    /\ UNCHANGED <<staging, quarantine, local, nas, nextDoc, probe, dateq, topicq, pdfq, acq, ctl,
                   loopv,
                   filev,
                   pf, gate>>

\* Positions of the watcher outside process_file.  Only there does it read or
\* change the source directory, so a step of the other processes taken while
\* process_file runs has the effect of the same step taken when it is over;
\* the model takes it then.
OutsidePf == pc \in {"idle", "sweep", "scan", "sample", "acquire", "sleep"}

\* The process that held the staged file open while safe_remove was trying
\* to delete it (an antivirus scan, a sync client) removes the file itself.
Purge ==
    /\ pc = "pf_remove"
    /\ tries > 0
    /\ cur \in DOMAIN staging
    /\ staging' = Drop(staging, cur)
    /\ vanished' = vanished \cup {staging[cur]}
    /\ UNCHANGED <<source, quarantine, local, nas, nextDoc, probe, dateq, topicq, pdfq, acq, ctl,
                   loopv,
                   filev,
                   pf, gate>>

Env ==
    /\ OutsidePf
    /\ \E n \in SourceNames :
        \/ Arrive(n)
        \/ Grow(n)
        \/ Close(n)
        \/ Grab(n)
        \/ Vanish(n)

-----------------------------------------------------------------------------
\* The watcher process.

\* The per-file locals when no file is in hand.
ResetFile ==
    /\ cur' = NoName
    /\ s1' = 0
    /\ target' = NoName
    /\ tries' = 0
    /\ ret' = "sweep"

\* main starts process_once or watch_loop; both begin with
\* _process_staging_all, which lists the staging directory.
Start(m) ==
    /\ pc = "idle"
    /\ mode' = m
    /\ exit' = "run"
    /\ pc' = "sweep"
    /\ todo' = DOMAIN staging
    /\ seen' = {}
    /\ current' = {}
    /\ ResetFile
    /\ pf' = NoPf
    /\ gate' = [NoGate EXCEPT !.leftover = DOMAIN staging]
    /\ UNCHANGED <<fs, envh>>

\* process_file(p, topics) is entered from loop r; d is the document at p.
EnterPf(p, d, r) ==
    /\ pc' = "pf_infer"
    /\ cur' = p
    /\ ret' = r
    /\ s1' = 0
    /\ target' = NoName
    /\ tries' = 0
    /\ pf' = [NoPf EXCEPT !.path = p, !.doc = d, !.result = "running"]

\* A loop that does not move on: the entry in hand stays to be iterated.
RemainingSame(list, e) == list

\* for entry in os.listdir(...): each entry of the listing is iterated once.
Remaining(list, e) == list \ {e}

\* _process_staging_all: one iteration of the loop over the staging listing.
SweepNext ==
    /\ pc = "sweep"
    /\ \E e \in todo :
        /\ todo' = Remaining(todo, e)
        /\ IF e \in DOMAIN staging /\ ValidExt(e)
             THEN EnterPf(e, staging[e], "sweep")
             ELSE UNCHANGED <<pc, filev, pf>>
    /\ UNCHANGED <<fs, envh, mode, exit, seen, current, gate>>

\* os.listdir(config.SCAN_DIR): the names of the files in the source
\* directory and of its subdirectories, not what lies inside these.
Listing == DOMAIN source \cup SubDirs

\* A test that takes every entry of the listing for a file.
IsFileAny(e) == TRUE

\* os.path.isfile(os.path.join(config.SCAN_DIR, entry))
IsFile(e) == e \in DOMAIN source

\* os.path.getsize(p), which answers for a directory as well.
getsize(e) == IF e \in DOMAIN source THEN source[e].size ELSE 0

\* The staging listing is exhausted: os.listdir(config.SCAN_DIR).
SweepEnd ==
    /\ pc = "sweep"
    /\ todo = {}
    /\ pc' = "scan"
    /\ todo' = Listing
    /\ current' = {}
    /\ UNCHANGED <<fs, envh, mode, exit, seen, filev, pf, gate>>

\* The position the loop of the source listing continues at.
NextEntry == "scan"

\* One iteration of the loop over the source listing, up to the first size
\* sample.  An entry that is not a file is passed over (the test on
\* Path(p).parent that follows is false for every entry of the listing, whose
\* parent is SCAN_DIR).  process_once filters on the extension before sampling; watch_loop
\* records the path in current and samples only paths not in seen.
ScanNext ==
    /\ pc = "scan"
    /\ \E e \in todo :
        /\ todo' = Remaining(todo, e)
        /\ IF ~IsFile(e)
             THEN UNCHANGED <<pc, current, filev, gate>>
             ELSE /\ current' = IF mode = "watch" THEN current \cup {e} ELSE current
                  /\ IF (mode = "once" /\ ValidExt(e)) \/ (mode = "watch" /\ e \notin seen)
                       THEN /\ pc' = "sample"
                            /\ cur' = e
                            /\ s1' = getsize(e)
                            /\ UNCHANGED <<target, tries, ret, gate>>
                       ELSE UNCHANGED <<pc, filev, gate>>
    /\ UNCHANGED <<fs, envh, mode, exit, seen, pf>>

\* A gate that lets every file through.
StableAlways(a, b) == TRUE

\* The size gate on the two samples s1 and s2 of one file.
Stable(a, b) == a = b

\* After time.sleep(2.0): the second sample and the gate.  getsize raises when
\* the file is gone, and the handler goes on with the next entry.  A stable
\* file (with a valid extension, which watch_loop tests here) is handed to
\* acquire_to_staging, which computes its target.
Sample2 ==
    /\ pc = "sample"
    /\ IF cur \notin DOMAIN source
         THEN /\ pc' = NextEntry
              /\ ResetFile
              /\ UNCHANGED gate
         ELSE IF ~Stable(s1, source[cur].size)
           THEN /\ pc' = NextEntry
                /\ ResetFile
                /\ gate' = [gate EXCEPT !.unstable = @ \cup {cur}]
           ELSE IF ~ValidExt(cur)
             THEN /\ pc' = NextEntry
                  /\ ResetFile
                  /\ UNCHANGED gate
             ELSE /\ pc' = "acquire"
                  /\ target' = unique_path(DOMAIN staging, cur)
                  /\ tries' = 0
                  /\ UNCHANGED <<cur, s1, ret, gate>>
    /\ UNCHANGED <<fs, envh, mode, exit, loopv, pf>>

\* A retry loop that treats a missing source like a locked one.
OnFileNotFoundRetry == "retry"

\* acquire_to_staging, except FileNotFoundError: return None.
OnFileNotFound == "return"

\* acquire_to_staging: one attempt of os.replace(src_path, target).  A missing
\* source returns None; a source held open by another process raises
\* PermissionError and the loop sleeps; otherwise the file is renamed into
\* staging and the caller starts process_file on it.
AcquireAttempt ==
    /\ pc = "acquire"
    /\ tries < AcquireRetries
    /\ IF cur \notin DOMAIN source
         THEN IF OnFileNotFound = "return"
                THEN /\ pc' = NextEntry
                     /\ ResetFile
                     /\ UNCHANGED <<fs, pf, gate>>
                ELSE /\ tries' = tries + 1
                     /\ UNCHANGED <<fs, pc, cur, s1, target, ret, pf, gate>>
         ELSE IF source[cur].busy
           THEN /\ tries' = tries + 1
                /\ UNCHANGED <<fs, pc, cur, s1, target, ret, pf, gate>>
           ELSE /\ staging' = Put(staging, target, source[cur].doc)
                /\ source' = Drop(source, cur)
                /\ EnterPf(target, source[cur].doc, "scan")
                /\ gate' = [gate EXCEPT !.staged = @ \cup {cur}]
                /\ UNCHANGED <<quarantine, local, nas>>
    /\ UNCHANGED <<envh, mode, exit, loopv>>

\* A give-up that copies the file it could not rename into staging.
GiveUpCopies(st, t, c) ==
    IF c \in DOMAIN source THEN Put(st, t, source[c].doc) ELSE st

\* The staging directory when acquire_to_staging gives up: the loop has
\* created nothing, and after it there is only the log line and return None.
GiveUpLeaves(st, t, c) == st

\* acquire_to_staging: the retries are used up; it returns None, and the
\* caller ("if staged:") goes on with the next entry.
AcquireGiveUp ==
    /\ pc = "acquire"
    /\ tries = AcquireRetries
    /\ pc' = NextEntry
    /\ ResetFile
    /\ gate' = [gate EXCEPT !.failed = @ \cup {cur}]
    /\ staging' = GiveUpLeaves(staging, target, cur)
    /\ UNCHANGED <<source, quarantine, local, nas, envh, mode, exit, loopv, pf>>

\* The source listing is exhausted.  process_once returns; watch_loop sets
\* seen = current and sleeps poll_seconds.
ScanEnd ==
    /\ pc = "scan"
    /\ todo = {}
    /\ IF mode = "once"
         THEN /\ pc' = "idle"
              /\ exit' = "finished"
              /\ seen' = {}
              /\ current' = {}
              /\ gate' = NoGate
         ELSE /\ pc' = "sleep"
              /\ seen' = current
              /\ UNCHANGED <<exit, current, gate>>
    /\ UNCHANGED <<fs, envh, mode, todo, filev, pf>>

\* watch_loop: the next poll cycle starts with a new listing of the source.
Wake ==
    /\ pc = "sleep"
    /\ pc' = "scan"
    /\ todo' = Listing
    /\ current' = {}
    /\ gate' = [NoGate EXCEPT !.skippedPrev = gate.unstable \cup gate.failed,
                            !.leftover = DOMAIN staging,
                            !.stagedPrev = gate.staged]
    /\ UNCHANGED <<fs, envh, mode, exit, seen, filev, pf>>

\* KeyboardInterrupt: watch_loop catches it around a poll cycle and breaks;
\* anywhere else it ends the program.  Either way the process is gone.
Interrupt ==
    /\ pc # "idle"
    /\ pc' = "idle"
    /\ exit' = "interrupted"
    /\ todo' = {}
    /\ seen' = {}
    /\ current' = {}
    /\ ResetFile
    /\ pf' = NoPf
    /\ gate' = NoGate
    /\ UNCHANGED <<fs, envh, mode>>

-----------------------------------------------------------------------------
\* process_file(src_path, topics), src_path = cur.

\* An exception leaves process_file from the step in hand.
PfRaise ==
    /\ pc' = "pf_exit"
    /\ pf' = [pf EXCEPT !.result = "raised"]

\* process_file runs to its end.
PfReturn(rec) ==
    /\ pc' = "pf_exit"
    /\ pf' = [rec EXCEPT !.result = "returned"]

\* Steps 1-3: text extraction, date detection, topic detection, one after
\* the other.  Nothing here is guarded by a handler in process_file, so
\* whatever these raise leaves it.
PfExtract ==
    /\ pc = "pf_infer"
    /\ \E ok \in BOOLEAN :
         IF ok THEN pc' = "pf_date" /\ UNCHANGED pf
               ELSE PfRaise
    /\ UNCHANGED <<fs, envh, mode, exit, loopv, filev, gate>>

PfDate ==
    /\ pc = "pf_date"
    /\ \E ok \in BOOLEAN :
         IF ok THEN pc' = "pf_topic" /\ UNCHANGED pf
               ELSE PfRaise
    /\ UNCHANGED <<fs, envh, mode, exit, loopv, filev, gate>>

PfTopic ==
    /\ pc = "pf_topic"
    /\ \E ok \in BOOLEAN :
         IF ok THEN pc' = "pf_mkdir" /\ UNCHANGED pf
               ELSE PfRaise
    /\ UNCHANGED <<fs, envh, mode, exit, loopv, filev, gate>>

\* Step 4, directories: local_topic_dir.mkdir raises or succeeds; a failure of
\* nas_topic_dir.mkdir is logged and swallowed.
PfMkdir ==
    /\ pc = "pf_mkdir"
    /\ \E ok \in BOOLEAN :
         IF ok THEN pc' = "pf_copy" /\ UNCHANGED pf
               ELSE PfRaise
    /\ UNCHANGED <<fs, envh, mode, exit, loopv, filev, gate>>

\* shutil.copy2(src_path, local_target) raised: no handler surrounds it.
CopyFailedSwallowed ==
    /\ pc' = "pf_nas"
    /\ UNCHANGED pf

CopyFailed == PfRaise

\* The filed copy's topic directory and desired name.
Topic == DocTopic(pf.doc)

Desired == BaseName(pf.doc, Lower(cur.ext))

\* Step 4, local copy: local_target = unique_path(...); shutil.copy2.  A copy
\* that fails raises, leaving nothing or a truncated file at local_target; a
\* copy into a root with no room left fails.
PfCopy ==
    /\ pc = "pf_copy"
    /\ LET lt == unique_path(NamesIn(local, Topic), Desired) IN
       \E out \in IF Cardinality(DOMAIN local) < MaxFiled
                    THEN {"ok", "fail", "partial"} ELSE {"fail"} :
         CASE out = "ok" ->
                /\ local' = Put(local, <<Topic, lt>>, staging[cur])
                /\ pc' = "pf_nas"
                /\ pf' = [pf EXCEPT !.filed = lt]
           [] out = "fail" ->
                /\ CopyFailed
                /\ UNCHANGED local
           [] out = "partial" ->
                /\ local' = Put(local, <<Topic, lt>>, 0 - staging[cur])
                /\ CopyFailed
    /\ UNCHANGED <<source, staging, quarantine, nas, envh, mode, exit,
                   loopv, filev, gate>>

\* A secondary copy whose failure leaves process_file.
NasFailedRaises == PfRaise

\* nas_topic_dir.mkdir or the copy to nas_target raised: the handler logs it
\* and process_file goes on.
NasFailed ==
    /\ pc' = "pf_notify"
    /\ pf' = [pf EXCEPT !.nas = "failed"]

\* Step 4, secondary copy: attempted when os.path.isdir(config.NAS_BASE),
\* under the name unique_path finds free in the topic directory of the NAS.
PfNas ==
    /\ pc = "pf_nas"
    /\ LET nt == unique_path(NamesIn(nas, Topic), Desired) IN
       \E out \in {"down", "copied", "failed"} :
         CASE out = "down" ->
                /\ pc' = "pf_notify"
                /\ pf' = [pf EXCEPT !.nas = "down"]
                /\ UNCHANGED nas
           [] out = "copied" ->
                /\ nas' = Put(nas, <<Topic, nt>>, staging[cur])
                /\ pc' = "pf_notify"
                /\ pf' = [pf EXCEPT !.nas = "copied"]
           [] out = "failed" ->
                /\ NasFailed
                /\ UNCHANGED nas
    /\ UNCHANGED <<source, staging, quarantine, local, envh, mode, exit,
                   loopv, filev, gate>>

\* A notification whose failure leaves process_file.
NotifyFailedRaises == PfRaise

\* notify_document_filed failed: _send_via_smtp raised and the handler in
\* notify_document_filed logged it, or notify_document_filed itself raised
\* and the handler in process_file logged it.  Step 6 follows.
NotifyFailed ==
    /\ pc' = "pf_remove"
    /\ pf' = [pf EXCEPT !.mail = "failed", !.released = TRUE]

\* Step 5: notify_document_filed returns at once when the mailer is disabled
\* or its settings are incomplete, and sends otherwise.  Step 6 follows:
\* gc.collect() and the call safe_remove(src_path).
PfNotify ==
    /\ pc = "pf_notify"
    /\ tries' = 0
    /\ \E out \in {"disabled", "incomplete", "sent", "failed"} :
         IF out = "failed"
           THEN NotifyFailed
           ELSE /\ pc' = "pf_remove"
                /\ pf' = [pf EXCEPT !.mail = out, !.released = TRUE]
    /\ UNCHANGED <<fs, envh, mode, exit, loopv, cur, s1, target, ret, gate>>

\* for _ in range(retries): the loop is over after RemoveRetries failed
\* attempts; and a variant that gives up after the first.
ExhaustedAtOnce(t) == t >= 1

Exhausted(t) == t >= RemoveRetries

\* safe_remove: one attempt of os.remove(path).  An absent file returns True;
\* a file held open raises PermissionError and the loop sleeps.
RemoveAttempt ==
    /\ pc = "pf_remove"
    /\ ~Exhausted(tries)
    /\ IF cur \notin DOMAIN staging
         THEN /\ PfReturn([pf EXCEPT !.rmRet = "true"])
              /\ UNCHANGED <<staging, tries>>
         ELSE \E locked \in BOOLEAN :
                IF locked
                  THEN /\ tries' = tries + 1
                       /\ UNCHANGED <<staging, pc, pf>>
                  ELSE /\ staging' = Drop(staging, cur)
                       /\ PfReturn([pf EXCEPT !.deleted = TRUE, !.rmRet = "true"])
                       /\ UNCHANGED tries
    /\ UNCHANGED <<source, quarantine, local, nas, envh, mode, exit, loopv,
                   cur, s1, target, ret, gate>>

\* safe_remove: the retries are used up; shutil.move(path, dst) with
\* dst = unique_path(QUARANTINE_DIR, name).  The move renames; when the rename
\* fails it copies and then unlinks, so a file still held open is either not
\* moved at all or copied to dst and left in staging; a file that is no longer
\* there makes the move raise FileNotFoundError.  safe_remove returns False on
\* any exception, and process_file logs that and returns.
Quarantine ==
    /\ pc = "pf_remove"
    /\ Exhausted(tries)
    /\ LET dst == unique_path(DOMAIN quarantine, cur) IN
       \E out \in IF cur \in DOMAIN staging THEN {"moved", "failed", "copied"}
                                           ELSE {"failed"} :
         CASE out = "moved" ->
                /\ quarantine' = Put(quarantine, dst, staging[cur])
                /\ staging' = Drop(staging, cur)
                /\ PfReturn([pf EXCEPT !.quarantined = dst, !.rmRet = "true"])
           [] out = "failed" ->
                /\ PfReturn([pf EXCEPT !.rmRet = "false"])
                /\ UNCHANGED <<staging, quarantine>>
           [] out = "copied" ->
                /\ quarantine' = Put(quarantine, dst, staging[cur])
                /\ PfReturn([pf EXCEPT !.quarantined = dst, !.rmRet = "false"])
                /\ UNCHANGED staging
    /\ UNCHANGED <<source, local, nas, envh, mode, exit, loopv, filev, gate>>

\* A caller that lets the exception through: the pass ends there.
HandlerAborts(r) == "idle"

\* Where the caller goes on after process_file raised: both loops catch
\* Exception, report it and take the next entry.
Handler(r) == r

\* Back in the calling loop, after the return or in the except clause.
AfterPf ==
    /\ pc = "pf_exit"
    /\ pc' = IF pf.result = "raised" THEN Handler(ret) ELSE ret
    /\ ResetFile
    /\ pf' = NoPf
    /\ gate' = [gate EXCEPT !.leftover = @ \ {pf.path}]
    /\ UNCHANGED <<fs, envh, mode, exit, loopv>>

-----------------------------------------------------------------------------
Next ==
    \/ Env
    \/ Purge
    \/ \E m \in {"once", "watch"} : Start(m)
    \/ SweepNext
    \/ SweepEnd
    \/ ScanNext
    \/ Sample2
    \/ AcquireAttempt
    \/ AcquireGiveUp
    \/ ScanEnd
    \/ Wake
    \/ Interrupt
    \/ PfExtract
    \/ PfDate
    \/ PfTopic
    \/ PfMkdir
    \/ PfCopy
    \/ PfNas
    \/ PfNotify
    \/ RemoveAttempt
    \/ Quarantine
    \/ AfterPf

Spec == Init /\ [][Next]_vars

\* The watcher's own steps: everything but the other actors' (Env), the
\* operator starting the program (Start) and Ctrl+C (Interrupt).
Watcher ==
    \/ SweepNext
    \/ SweepEnd
    \/ ScanNext
    \/ Sample2
    \/ AcquireAttempt
    \/ AcquireGiveUp
    \/ ScanEnd
    \/ Wake
    \/ PfExtract
    \/ PfDate
    \/ PfTopic
    \/ PfMkdir
    \/ PfCopy
    \/ PfNas
    \/ PfNotify
    \/ RemoveAttempt
    \/ Quarantine
    \/ AfterPf

\* A started program keeps running: every loop is bounded or sleeps a finite
\* time, so the watcher takes its next step for as long as it has one.
SpecLive == Spec /\ WF_vars(Watcher)

-----------------------------------------------------------------------------
\* unique_path on its own: a directory and a desired filename drawn from a
\* small universe, and the calls of the naming scenario.

ProbeNames ==
    { Name("a", x, "pdf") : x \in {<<>>, <<1, 1>>} \cup { <<i>> : i \in 1..MaxSfx } }

InitNaming ==
    /\ source = Empty
    /\ staging = Empty
    /\ quarantine = Empty
    /\ local = Empty
    /\ nas = Empty
    /\ nextDoc = 1
    /\ vanished = {}
    /\ pc = "idle"
    /\ mode = "once"
    /\ exit = "finished"
    /\ todo = {}
    /\ seen = {}
    /\ current = {}
    /\ cur = NoName
    /\ s1 = 0
    /\ target = NoName
    /\ tries = 0
    /\ ret = "sweep"
    /\ pf = NoPf
    /\ gate = NoGate
    /\ probe \in { [NoProbe EXCEPT !.dir = D, !.want = F] :
                     D \in SUBSET ProbeNames, F \in ProbeNames }
    /\ dateq = NoDateQ
    /\ topicq = NoTopicQ
    /\ pdfq = NoPdfQ
    /\ acq = NoAcq

program == <<fs, nextDoc, vanished, acq, dateq, topicq, pdfq, ctl, loopv, filev, pf, gate>>

NameFirst ==
    /\ probe.first = NoName
    /\ probe' = [probe EXCEPT !.first = unique_path(probe.dir, probe.want)]
    /\ UNCHANGED program

NameAgain ==
    /\ probe.first # NoName
    /\ ~probe.created
    /\ probe.again = NoName
    /\ probe' = [probe EXCEPT !.again = unique_path(probe.dir, probe.want)]
    /\ UNCHANGED program

NameCreate ==
    /\ probe.first # NoName
    /\ ~probe.created
    /\ probe' = [probe EXCEPT !.dir = @ \cup {probe.first}, !.created = TRUE]
    /\ UNCHANGED program

NameAfter ==
    /\ probe.created
    /\ probe.after = NoName
    /\ probe' = [probe EXCEPT !.after = unique_path(probe.dir, probe.want)]
    /\ UNCHANGED program

NextNaming == NameFirst \/ NameAgain \/ NameCreate \/ NameAfter

SpecNaming == InitNaming /\ [][NextNaming]_vars

-----------------------------------------------------------------------------
\* find_date_in_text on its own (dates.py).  A text is a sequence of tokens
\* separated by blanks.  A token of family "dmy" is written p1.p2.p3 (one or two
\* digits, one or two digits, two to four digits), one of family "ymd"
\* p1-p2-p3 (four digits, one or two, one or two), one of family "word" holds
\* no digit.

\* A token of a text: the pattern family whose regular expression matches it,
\* its three numbers in the order written, and the number of digits its year
\* is written with.
Token(fam, p1, p2, p3) ==
    [fam |-> fam, p1 |-> p1, p2 |-> p2, p3 |-> p3,
     yw |-> IF fam = "dmy" /\ p3 < 100 THEN 2 ELSE 4]

Tokens ==
    { Token("dmy", 3, 4, 2024),                     \* 03.04.2024
      Token("dmy", 31, 2, 2024),                    \* 31.02.2024
      Token("dmy", 5, 6, 24),                       \* 05.06.24
      [Token("dmy", 1, 2, 24) EXCEPT !.yw = 4],     \* 01.02.0024
      Token("ymd", 2023, 1, 1),                     \* 2023-01-01
      Token("ymd", 2023, 13, 1),                    \* 2023-13-01
      Token("dmonthy", 3, 5, 2024),                 \* 3. Mai 2024
      Token("word", 0, 0, 0) }                      \* Rechnung

Texts == UNION { [1..n -> Tokens] : n \in 1..MaxTokens }

\* datetime(y, m, d) raises ValueError unless the date exists.
DaysIn(y, m) ==
    IF m = 2
      THEN IF y % 4 = 0 /\ (y % 100 # 0 \/ y % 400 = 0) THEN 29 ELSE 28
      ELSE IF m \in {4, 6, 9, 11} THEN 30 ELSE 31

ValidDate(y, m, d) ==
    /\ y \in 1..9999
    /\ m \in 1..12
    /\ d \in 1..DaysIn(y, m)

\* parse_date(raw) on the text of one token.  The first loop takes a token of
\* three parts whose first two have at most two characters as day, month,
\* year (a year below 100 is in the 2000s); the second takes one whose first
\* part has four characters as year, month, day; a day, a month name and a
\* year are taken by the final search; a ValueError is swallowed and nothing
\* else fits, so the result is None.  int() reads the year by its value, so
\* the digits it was written with play no part.
parse_date(t) ==
    CASE t.fam = "dmy" ->
           LET y == IF t.p3 < 100 THEN t.p3 + 2000 ELSE t.p3 IN
           IF ValidDate(y, t.p2, t.p1) THEN Date(y, t.p2, t.p1) ELSE None
      [] t.fam = "ymd" ->
           IF ValidDate(t.p1, t.p2, t.p3) THEN Date(t.p1, t.p2, t.p3) ELSE None
      [] t.fam = "dmonthy" ->
           IF ValidDate(t.p3, t.p2, t.p1) THEN Date(t.p3, t.p2, t.p1) ELSE None
      [] OTHER -> None

\* DATE_PATTERNS, by the family of token each regular expression matches,
\* and a variant with the first two exchanged.
DATE_PATTERNS_YmdFirst == <<"ymd", "dmy", "dmonthy">>

DATE_PATTERNS == <<"dmy", "ymd", "dmonthy">>

\* A search that skips matches parse_date rejects.
SearchValid(fam, text) ==
    LET hits == { i \in 1..Len(text) : text[i].fam = fam /\ parse_date(text[i]) # None } IN
    IF hits = {} THEN 0 ELSE CHOOSE i \in hits : \A j \in hits : i <= j

\* re.search(pat, text): the position of the leftmost match, 0 for no match.
Search(fam, text) ==
    LET hits == { i \in 1..Len(text) : text[i].fam = fam } IN
    IF hits = {} THEN 0 ELSE CHOOSE i \in hits : \A j \in hits : i <= j

\* find_date_in_text(text): for each pattern in order, the leftmost match is
\* parsed and returned when it is a date.
RECURSIVE FindFrom(_, _)
FindFrom(k, text) ==
    IF k > Len(DATE_PATTERNS) THEN None
    ELSE LET i == Search(DATE_PATTERNS[k], text) IN
         IF i # 0 /\ parse_date(text[i]) # None
           THEN parse_date(text[i])
           ELSE FindFrom(k + 1, text)

find_date_in_text(text) == FindFrom(1, text)

\* What os.path.getctime and os.path.getmtime give for the file, None when
\* they raise, and what datetime.now() gives.
Ctimes == {None, Date(2022, 2, 2)}

Mtimes == {None, Date(2021, 1, 1)}

Now == Date(2025, 7, 7)

\* for getter in (os.path.getctime, os.path.getmtime), and a variant with the
\* two exchanged.
ScanGettersMtimeFirst == <<"mt", "ct">>

ScanGetters == <<"ct", "mt">>

\* get_scan_datetime(path): the first getter that does not raise, else now.
RECURSIVE ScanFrom(_, _)
ScanFrom(k, q) ==
    IF k > Len(ScanGetters) THEN Now
    ELSE LET v == IF ScanGetters[k] = "ct" THEN q.ct ELSE q.mt IN
         IF v # None THEN v ELSE ScanFrom(k + 1, q)

get_scan_datetime(q) == ScanFrom(1, q)

InitDates ==
    /\ source = Empty
    /\ staging = Empty
    /\ quarantine = Empty
    /\ local = Empty
    /\ nas = Empty
    /\ nextDoc = 1
    /\ vanished = {}
    /\ pc = "idle"
    /\ mode = "once"
    /\ exit = "finished"
    /\ todo = {}
    /\ seen = {}
    /\ current = {}
    /\ cur = NoName
    /\ s1 = 0
    /\ target = NoName
    /\ tries = 0
    /\ ret = "sweep"
    /\ pf = NoPf
    /\ gate = NoGate
    /\ probe = NoProbe
    /\ dateq \in { [NoDateQ EXCEPT !.text = t, !.ct = c, !.mt = m] :
                      t \in Texts \cup {<<>>}, c \in Ctimes, m \in Mtimes }
    /\ topicq = NoTopicQ
    /\ pdfq = NoPdfQ
    /\ acq = NoAcq

FindDate ==
    /\ ~dateq.called
    /\ dateq' = [dateq EXCEPT !.called = TRUE, !.res = find_date_in_text(dateq.text)]
    /\ UNCHANGED <<fs, nextDoc, vanished, acq, probe, topicq, pdfq, ctl, loopv, filev, pf, gate>>

\* process_file, step 2: doc_dt = find_date_in_text(text) if text else None;
\* scan_dt = get_scan_datetime(src_path); dt = doc_dt or scan_dt.
EffectiveDate ==
    /\ ~dateq.picked
    /\ LET doc_dt  == IF dateq.text # <<>> THEN find_date_in_text(dateq.text) ELSE None
           scan_dt == get_scan_datetime(dateq)
       IN  dateq' = [dateq EXCEPT !.picked = TRUE,
                                  !.eff = IF doc_dt # None THEN doc_dt ELSE scan_dt]
    /\ UNCHANGED <<fs, nextDoc, vanished, acq, probe, topicq, pdfq, ctl, loopv, filev, pf, gate>>

NextDates == FindDate \/ EffectiveDate

SpecDates == InitDates /\ [][NextDates]_vars

-----------------------------------------------------------------------------
\* Properties.

Docs == 1..(nextDoc - 1)

Contents(dir) == { dir[k] : k \in DOMAIN dir }

\* C1: release (safe_remove) has been invoked on the staged path whenever
\* process_file has returned or let an exception through.
C1_ReleasedOnEveryExit ==
    pc = "pf_exit" => pf.released

\* C2: after an invocation of process_file, whatever its outcome, the file is
\* gone from its staging path, and it was either deleted or moved into
\* quarantine, not both and not neither.
C2_LeftStagingExactlyOneWay ==
    pc = "pf_exit" =>
        /\ pf.path \notin DOMAIN staging
        /\ pf.deleted # (pf.quarantined # NoName)

\* C3: no document is filed into the local target more than once.
C3_FiledAtMostOnce ==
    \A d \in Docs : Cardinality({ k \in DOMAIN local : local[k] = d }) <= 1

\* C4: every document that entered the source directory and was not taken out
\* of it by another actor is, complete, in the source directory, in staging,
\* in quarantine or in the local target; and a staged file has been deleted
\* only with its complete local copy in place.
C4_NoDataLoss ==
    /\ \A d \in Docs \ vanished :
           \/ \E n \in DOMAIN source : source[n].doc = d
           \/ d \in Contents(staging) \cup Contents(quarantine) \cup Contents(local)
    /\ pf.deleted =>
           /\ pf.filed # NoName
           /\ <<DocTopic(pf.doc), pf.filed>> \in DOMAIN local
           /\ local[<<DocTopic(pf.doc), pf.filed>>] = pf.doc

\* A staged file was deleted, after lock errors on the delete, while other
\* documents are about.
C4_Witness ==
    /\ pc = "pf_exit"
    /\ pf.deleted
    /\ tries > 0
    /\ nextDoc > 2

\* C5: the step that takes the second size sample skips the file when the two
\* samples differ, changing neither source nor staging, and hands the file to
\* acquire_to_staging when they are equal and its extension is allowed; and
\* acquire_to_staging never works on a file found unstable in the same pass.
C5_StabilityGate ==
    /\ [][(pc = "sample" /\ pc' \notin {"sample", "idle"} /\ cur \in DOMAIN source) =>
            IF s1 # source[cur].size
              THEN /\ pc' = "scan"
                   /\ cur \in gate'.unstable
                   /\ source' = source
                   /\ staging' = staging
              ELSE ValidExt(cur) => (pc' = "acquire" /\ cur' = cur)]_vars
    /\ [](pc = "acquire" => cur \notin gate.unstable)

\* A stable file is being acquired in a pass that found another file unstable.
C5_Witness ==
    /\ pc = "acquire"
    /\ gate.unstable # {}

\* C6: in continuous mode, when the loop comes to a listed file that the
\* previous poll cycle skipped, it examines it (samples its size).
C6_SkippedIsExaminedAgain ==
    [][\A e \in todo \ todo' :
         (pc = "scan" /\ mode = "watch" /\ pc' # "idle"
            /\ e \in gate.skippedPrev /\ e \in DOMAIN source)
         => (pc' = "sample" /\ cur' = e)]_vars

NoOverwrite(dir, dirNext) ==
    \A k \in (DOMAIN dir) \cap (DOMAIN dirNext) : dirNext[k] = dir[k]

\* C7: no step replaces or changes a file that exists in staging, quarantine,
\* a local topic directory or a secondary topic directory, and the staging
\* slot acquire_to_staging renames into does not exist.
C7_NoSilentOverwrite ==
    /\ [][/\ NoOverwrite(staging, staging')
          /\ NoOverwrite(quarantine, quarantine')
          /\ NoOverwrite(local, local')
          /\ NoOverwrite(nas, nas')]_vars
    /\ [](pc = "acquire" => target \notin DOMAIN staging)

\* A file is being staged under a suffixed name because its own is taken.
C7_Witness ==
    /\ pc = "acquire"
    /\ target # cur
    /\ cur \in DOMAIN staging

\* C8: a second call of unique_path with nothing created in between returns
\* the path of the first; a call after the first path was created returns a
\* different path, the desired name with a numeric suffix _i.
C8_NamingIdempotent ==
    /\ probe.again # NoName => probe.again = probe.first
    /\ probe.after # NoName =>
           /\ probe.after # probe.first
           /\ \E i \in 1..(Cardinality(probe.dir) + 1) :
                  probe.after = WithSuffix(probe.want, i)

\* All three calls were made, on a desired name that was taken from the start.
C8_Witness ==
    /\ probe.again # NoName
    /\ probe.after # NoName
    /\ probe.first # probe.want

\* C9: after process_file raised, the calling loop goes on where it was, with
\* the entries it had left; and a loop ends its pass only with no entry left.
C9_PerFileIsolation ==
    /\ [][(pc = "pf_exit" /\ pf.result = "raised" /\ exit' = "run" /\ pc' # "pf_exit") =>
            (pc' = ret /\ todo' = todo)]_vars
    /\ [][(pc \in {"sweep", "scan"} /\ pc' \in {"idle", "sleep"} /\ exit' # "interrupted") =>
            todo = {}]_vars

\* process_file raised with entries of the listing still to come.
C9_Witness ==
    /\ pc = "pf_exit"
    /\ pf.result = "raised"
    /\ todo # {}

\* C10: a staged file whose processing threw ends up in quarantine (or, had a
\* later attempt not thrown, filed): it does not stay in staging for ever.
C10_PoisonFileQuarantined ==
    \A d \in 1..MaxDocs :
        (pc = "pf_exit" /\ pf.result = "raised" /\ pf.doc = d)
            ~> (d \in Contents(quarantine) \cup Contents(local))

\* C11: a poll cycle of watch_loop that begins with files in the staging
\* directory drains them (the staging sweep) before it scans the source.
C11_CycleDrainsStaging ==
    [][(pc = "sleep" /\ pc' \notin {"sleep", "idle"} /\ staging # Empty)
          => (pc' = "sweep" /\ todo' = DOMAIN staging)]_vars

\* C12: in one pass (the one-shot pass, or one poll cycle) a source file is
\* staged, and process_file runs on a file staged in this pass, only when
\* every file that was in staging at the start of the pass has had its
\* process_file invocation finished.
C12_LeftoversFirst ==
    /\ [][(pc = "acquire" /\ staging' # staging) => gate.leftover = {}]_vars
    /\ []((pf.result = "running" /\ ret = "scan") => gate.leftover = {})

\* C13: a KeyboardInterrupt takes effect on watch_loop only with no file in
\* the pipeline: an invocation of process_file made by the loop is never cut
\* short.
C13_InFlightCompletes ==
    [][(mode = "watch" /\ exit = "run" /\ exit' = "interrupted" /\ ret = "scan")
          => pf.result # "running"]_vars

\* C14: when safe_remove has returned, its result is True if and only if no
\* file is at the staging path it was called on.
C14_ReleaseResult ==
    (pc = "pf_exit" /\ pf.rmRet # "none") =>
        (pf.rmRet = "true" <=> pf.path \notin DOMAIN staging)

C16_NoFeedback ==
    /\ [](pc \in {"sample", "acquire"} => cur \notin SubDirs)
    /\ [][(pc = "scan" /\ pc' = "sample") => cur' \in DOMAIN source]_vars
    /\ [][\A n \in (DOMAIN staging') \ (DOMAIN staging) :
            /\ pc = "acquire"
            /\ cur \in (DOMAIN source) \ (DOMAIN source')
            /\ staging'[n] = source[cur].doc]_vars
    /\ [][(pf.result # "running" /\ pf'.result = "running") =>
            pf'.path \in DOMAIN staging']_vars
    /\ [][\A k \in DOMAIN quarantine :
            k \in DOMAIN quarantine' /\ quarantine'[k] = quarantine[k]]_vars

\* A pass samples a source file while files lie in quarantine and in staging.
C16_Witness ==
    /\ pc = "sample"
    /\ quarantine # Empty
    /\ staging # Empty

\* C17: only files whose lower-cased extension is one of pdf, jpg, jpeg, png,
\* tif, tiff, bmp are handed to acquire_to_staging, lie in staging or are
\* passed to process_file; and no step of the watcher removes or changes a
\* source file with another extension.
C17_AllowList ==
    /\ [](pc = "acquire" =>
            Lower(cur.ext) \in {"pdf", "jpg", "jpeg", "png", "tif", "tiff", "bmp"})
    /\ [](\A n \in DOMAIN staging :
            Lower(n.ext) \in {"pdf", "jpg", "jpeg", "png", "tif", "tiff", "bmp"})
    /\ [](pf.result = "running" =>
            Lower(pf.path.ext) \in {"pdf", "jpg", "jpeg", "png", "tif", "tiff", "bmp"})
    /\ [][pc' # pc =>
            \A n \in DOMAIN source :
                Lower(n.ext) \notin {"pdf", "jpg", "jpeg", "png", "tif", "tiff", "bmp"}
                    => (n \in DOMAIN source' /\ source'[n] = source[n])]_vars

\* The watch loop is sampling a .txt file, after a pass that filed a document.
C17_Witness ==
    /\ mode = "watch"
    /\ pc = "sample"
    /\ cur.ext = "txt"
    /\ local # Empty

\* C18: the step of the secondary copy writes to the NAS only when NAS_BASE
\* is a directory, and whether it copies, finds no NAS or fails, it leaves the
\* local target as it is and process_file goes on to the notification; an
\* invocation whose secondary copy was skipped or failed returns, with the
\* local filed copy in place, the notification step done and release called.
C18_NasBestEffort ==
    /\ [][(pc = "pf_nas" /\ pc' \notin {"pf_nas", "idle"}) =>
            /\ pc' = "pf_notify"
            /\ pf'.result = "running"
            /\ pf'.filed = pf.filed
            /\ local' = local
            /\ pf'.nas = "down" => nas' = nas]_vars
    /\ [][nas' # nas => (pc = "pf_nas" /\ pf'.nas = "copied")]_vars
    /\ []((pc = "pf_exit" /\ pf.nas \in {"down", "failed"}) =>
            /\ pf.result = "returned"
            /\ pf.mail # "none"
            /\ pf.released
            /\ <<DocTopic(pf.doc), pf.filed>> \in DOMAIN local
            /\ local[<<DocTopic(pf.doc), pf.filed>>] = pf.doc)

\* process_file has returned and deleted the staged file after its secondary
\* copy failed.
C18_Witness ==
    /\ pc = "pf_exit"
    /\ pf.nas = "failed"
    /\ pf.deleted

\* C19: whatever becomes of the notification (mailer disabled, settings
\* incomplete, sent, failed), process_file goes on to safe_remove with the
\* local target as it is, and the invocation returns with the local filed copy
\* in place and safe_remove run.
C19_NotifyBestEffort ==
    /\ [][(pc = "pf_notify" /\ pc' \notin {"pf_notify", "idle"}) =>
            /\ pc' = "pf_remove"
            /\ pf'.released
            /\ pf'.result = "running"
            /\ pf'.mail \in {"disabled", "incomplete", "sent", "failed"}
            /\ local' = local]_vars
    /\ []((pc = "pf_exit" /\ pf.mail # "none") =>
            /\ pf.result = "returned"
            /\ pf.rmRet # "none"
            /\ <<DocTopic(pf.doc), pf.filed>> \in DOMAIN local
            /\ local[<<DocTopic(pf.doc), pf.filed>>] = pf.doc)

\* process_file has returned and deleted the staged file after the
\* notification failed.
C19_Witness ==
    /\ pc = "pf_exit"
    /\ pf.mail = "failed"
    /\ pf.deleted

-----------------------------------------------------------------------------
\* detect_topic on its own (topics.py): a topic table, as the dict is
\* iterated, and the haystack built from text and filename.

MaxTopics == 2  \* topics in a topic table
MaxKws == 2     \* keywords listed for one topic

TopicNames == {"Strom", "Bank", "Sonstiges"}

\* Keywords as configured: plain, with case and padding, and blank.
Keywords == {"strom", "Bank ", ""}

\* (kw or "").strip().lower()
NormKw(kw) == IF kw = "Bank " THEN "bank" ELSE kw

\* The haystack, by the normalised keywords that occur in it, either between
\* word boundaries or in its normalised form.
Hays == SUBSET {"strom", "bank"}

KwLists == UNION { [1..n -> Keywords] : n \in 0..MaxKws }

\* A dict has each key once.
Tables ==
    { t \in UNION { [1..n -> [name : TopicNames, kws : KwLists]] : n \in 0..MaxTopics } :
        \A i, j \in DOMAIN t : t[i].name = t[j].name => i = j }

\* "if not kw: continue", and a variant that lets the blank keyword through.
BlankNever(kw) == FALSE

Blank(kw) == kw = ""

\* The two searches of one keyword; the blank keyword, were it searched for,
\* is found at any word boundary.
Hit(kw, hay) == kw = "" \/ kw \in hay

\* The inner loop: hits, in the order of the keyword list; score is its length.
RECURSIVE HitsFrom(_, _, _)
HitsFrom(kws, hay, i) ==
    IF i > Len(kws) THEN <<>>
    ELSE LET kw == NormKw(kws[i]) IN
         IF ~Blank(kw) /\ Hit(kw, hay)
           THEN <<kw>> \o HitsFrom(kws, hay, i + 1)
           ELSE HitsFrom(kws, hay, i + 1)

\* "if score > best_score", and a variant that also takes an equal score.
BetterOrEqual(score, best_score) == score >= best_score

Better(score, best_score) == score > best_score

\* best_topic, best_score, matched = "Sonstiges", 0, []
Sentinel == "Sonstiges"

\* The outer loop from the k-th topic on.
RECURSIVE DetectFrom(_, _, _, _)
DetectFrom(table, hay, k, best) ==
    IF k > Len(table) THEN best
    ELSE LET kws  == table[k].kws
             hits == HitsFrom(kws, hay, 1)
         IN  IF kws = <<>> THEN DetectFrom(table, hay, k + 1, best)
             ELSE IF Better(Len(hits), best.score)
               THEN DetectFrom(table, hay, k + 1,
                        [topic |-> table[k].name, score |-> Len(hits), matched |-> hits])
               ELSE DetectFrom(table, hay, k + 1, best)

detect_topic(hay, table) ==
    LET best == DetectFrom(table, hay, 1,
                    [topic |-> Sentinel, score |-> 0, matched |-> <<>>])
    IN  [topic |-> best.topic, matched |-> best.matched]

\* The program as constructed, nothing running.
Quiet ==
    /\ source = Empty
    /\ staging = Empty
    /\ quarantine = Empty
    /\ local = Empty
    /\ nas = Empty
    /\ nextDoc = 1
    /\ vanished = {}
    /\ pc = "idle"
    /\ mode = "once"
    /\ exit = "finished"
    /\ todo = {}
    /\ seen = {}
    /\ current = {}
    /\ cur = NoName
    /\ s1 = 0
    /\ target = NoName
    /\ tries = 0
    /\ ret = "sweep"
    /\ pf = NoPf
    /\ gate = NoGate

InitTopics ==
    /\ Quiet
    /\ probe = NoProbe
    /\ dateq = NoDateQ
    /\ pdfq = NoPdfQ
    /\ acq = NoAcq
    /\ topicq \in { [NoTopicQ EXCEPT !.table = t, !.hay = h] : t \in Tables, h \in Hays }

DetectTopic ==
    /\ ~topicq.called
    /\ LET r == detect_topic(topicq.hay, topicq.table) IN
       topicq' = [topicq EXCEPT !.called = TRUE, !.topic = r.topic,
                                !.matched = r.matched]
    /\ UNCHANGED <<fs, nextDoc, vanished, acq, probe, dateq, pdfq, ctl, loopv, filev, pf, gate>>

NextTopics == DetectTopic

SpecTopics == InitTopics /\ [][NextTopics]_vars

\* The claim's notions, counted directly: the hit count of the k-th topic,
\* and the topics that can be chosen by matching.
HitCount(k) ==
    Cardinality({ i \in DOMAIN topicq.table[k].kws :
                    /\ NormKw(topicq.table[k].kws[i]) # ""
                    /\ NormKw(topicq.table[k].kws[i]) \in topicq.hay })

Qualifying == { k \in DOMAIN topicq.table : topicq.table[k].kws # <<>> }

\* C21: when some topic with a non-empty keyword list has a hit, detect_topic
\* returns the first topic in table order whose hit count is the maximum over
\* those topics, and the match list returned has that many entries, all of
\* them keywords of that topic found in the haystack.
C21_FirstMaxWins ==
    (topicq.called /\ \E k \in Qualifying : HitCount(k) > 0) =>
        \E k \in Qualifying :
            /\ \A j \in Qualifying : HitCount(j) <= HitCount(k)
            /\ \A j \in Qualifying : j < k => HitCount(j) < HitCount(k)
            /\ topicq.topic = topicq.table[k].name
            /\ Len(topicq.matched) = HitCount(k)
            /\ \A i \in DOMAIN topicq.matched :
                   /\ topicq.matched[i] \in topicq.hay
                   /\ \E n \in DOMAIN topicq.table[k].kws :
                          NormKw(topicq.table[k].kws[n]) = topicq.matched[i]

\* Two topics tie on one hit each and the first of the table was returned.
C21_Witness ==
    /\ topicq.called
    /\ Len(topicq.table) = 2
    /\ HitCount(1) = 1
    /\ HitCount(2) = 1
    /\ topicq.topic = topicq.table[1].name
    /\ topicq.matched # <<>>

\* C22: detect_topic returns the sentinel topic with an empty match list
\* exactly when no topic of the table has a hit, and a topic whose keyword
\* list is empty is never returned with a non-empty match list.
C22_SentinelIffNoHit ==
    topicq.called =>
        /\ (topicq.topic = "Sonstiges" /\ topicq.matched = <<>>)
             <=> (\A k \in DOMAIN topicq.table : HitCount(k) = 0)
        /\ \A k \in DOMAIN topicq.table :
             (topicq.table[k].kws = <<>> /\ topicq.topic = topicq.table[k].name)
                 => topicq.matched = <<>>

\* A table whose topics have keywords, none of them in the haystack, one of
\* them blank: the sentinel came back with no matches.
C22_Witness ==
    /\ topicq.called
    /\ topicq.hay # {}
    /\ \E k \in DOMAIN topicq.table :
           /\ topicq.table[k].name # "Sonstiges"
           /\ \E i \in DOMAIN topicq.table[k].kws : topicq.table[k].kws[i] = ""
    /\ \A k \in DOMAIN topicq.table : HitCount(k) = 0
    /\ topicq.topic = "Sonstiges"
    /\ topicq.matched = <<>>

-----------------------------------------------------------------------------
\* The date functions.

\* The leftmost token of a family in the text of the date scenario: the set
\* holding its position, empty when the family has no token there.
Leftmost(fam) ==
    { i \in DOMAIN dateq.text :
        /\ dateq.text[i].fam = fam
        /\ \A j \in DOMAIN dateq.text : j < i => dateq.text[j].fam # fam }

C23_EffectiveDate ==
    (dateq.called /\ dateq.picked) =>
        dateq.eff = IF dateq.text # <<>> /\ dateq.res # None THEN dateq.res
                    ELSE IF dateq.ct # None THEN dateq.ct
                    ELSE IF dateq.mt # None THEN dateq.mt
                    ELSE Date(2025, 7, 7)

\* Empty text, the creation time unreadable: the modification time was taken.
C23_Witness ==
    /\ dateq.picked
    /\ dateq.text = <<>>
    /\ dateq.ct = None
    /\ dateq.mt # None
    /\ dateq.eff = dateq.mt

\* C28: find_date_in_text returns the date of the leftmost D.M.Y-shaped token
\* when that token is a valid date; else that of the leftmost Y-M-D-shaped
\* token when that is valid; else that of the leftmost token of day, month
\* name and year when that is valid; else None.  A later token of a family
\* is never tried.
C28_FirstMatchOnly ==
    LET text == dateq.text
        Ok(fam) == \E i \in Leftmost(fam) : parse_date(text[i]) # None
        At(fam) == parse_date(text[CHOOSE i \in Leftmost(fam) : TRUE])
    IN  dateq.called =>
            dateq.res = IF Ok("dmy") THEN At("dmy")
                        ELSE IF Ok("ymd") THEN At("ymd")
                        ELSE IF Ok("dmonthy") THEN At("dmonthy")
                        ELSE None

\* 31.02.2024 stands first, a valid D.M.Y token and a valid Y-M-D token
\* follow: the Y-M-D date was returned.
C28_Witness ==
    /\ dateq.called
    /\ Len(dateq.text) = 3
    /\ dateq.text[1] = Token("dmy", 31, 2, 2024)
    /\ dateq.text[2] = Token("dmy", 3, 4, 2024)
    /\ dateq.text[3] = Token("ymd", 2023, 1, 1)
    /\ dateq.res = Date(2023, 1, 1)

\* C30: when the leftmost D.M.Y token of the text has a two-digit year YY and
\* day, month and 2000+YY make a date, that date is returned; when its year
\* is written with four digits and day, month and that year make a date,
\* that date is returned.
C30_TwoDigitYear ==
    \A i \in Leftmost("dmy") :
        LET t == dateq.text[i]
            y == IF t.yw = 2 THEN 2000 + t.p3 ELSE t.p3
        IN  (dateq.called /\ ValidDate(y, t.p2, t.p1)) =>
                dateq.res = Date(y, t.p2, t.p1)

-----------------------------------------------------------------------------
\* extract_text_from_pdf on its own (ocr.py).  A text is a sequence of
\* pieces: "ws" for white space and "t1", "t2", "t3" for what the first,
\* second and third strategy read from the pages.

\* The optional imports; each is the library or None.
Libs == {"pdfplumber", "convert_from_path", "pytesseract", "pypdfium2"}

Strategies == <<"direct", "pdf2image", "pypdfium2">>

\* The guard before each strategy.
Available(k, libs) ==
    CASE k = 1 -> "pdfplumber" \in libs
      [] k = 2 -> "convert_from_path" \in libs /\ "pytesseract" \in libs
      [] k = 3 -> "pypdfium2" \in libs /\ "pytesseract" \in libs

\* What a strategy does with the PDF: it reads nothing, only white space, or
\* text from the pages it gets through, and it raises on a later page (or at
\* once) or gets through all of them.
Doings == [yield : {"none", "blank", "text"}, raises : BOOLEAN]

\* What the strategy adds to the variable text: the first the page texts as
\* they are, the OCR strategies "\n" and the OCR text of each page.
Added(k, d) ==
    CASE d.yield = "none"  -> <<>>
      [] d.yield = "blank" -> <<"ws">>
      [] d.yield = "text"  -> IF k = 1 THEN <<"t1">>
                              ELSE <<"ws", IF k = 2 THEN "t2" ELSE "t3">>

\* text.strip()
RECURSIVE Strip(_)
Strip(t) ==
    IF t = <<>> THEN t
    ELSE IF Head(t) = "ws" THEN Strip(Tail(t))
    ELSE IF t[Len(t)] = "ws" THEN Strip(SubSeq(t, 1, Len(t) - 1))
    ELSE t

\* The strategies from the k-th on, text being what was added so far: a
\* strategy that raises is logged and the next one goes on with the same
\* variable; one that gets through returns when text.strip() is not empty.
RECURSIVE ExtractFrom(_, _, _)
ExtractFrom(k, text, q) ==
    IF k > Len(Strategies) THEN Strip(text)
    ELSE IF ~Available(k, q.libs) THEN ExtractFrom(k + 1, text, q)
    ELSE LET added == text \o Added(k, q.does[k]) IN
         IF ~q.does[k].raises /\ Strip(added) # <<>>
           THEN Strip(added)
           ELSE ExtractFrom(k + 1, added, q)

extract_text_from_pdf(q) == ExtractFrom(1, <<>>, q)

InitPdf ==
    /\ Quiet
    /\ probe = NoProbe
    /\ dateq = NoDateQ
    /\ topicq = NoTopicQ
    /\ acq = NoAcq
    /\ pdfq \in { [NoPdfQ EXCEPT !.libs = l, !.does = d] :
                     l \in SUBSET Libs, d \in [DOMAIN Strategies -> Doings] }

ExtractPdf ==
    /\ ~pdfq.called
    /\ pdfq' = [pdfq EXCEPT !.called = TRUE, !.text = extract_text_from_pdf(pdfq)]
    /\ UNCHANGED <<fs, nextDoc, vanished, acq, probe, dateq, topicq, ctl, loopv, filev, pf, gate>>

NextPdf == ExtractPdf

SpecPdf == InitPdf /\ [][NextPdf]_vars

\* C24: extract_text_from_pdf returns the text of the first strategy, in the
\* order direct text, pdf2image OCR, pypdfium2 OCR, that is available, does
\* not fail and reads text, and only that text; it returns the empty text
\* when there is no such strategy.
C24_FirstStrategyOnly ==
    LET Yields(k) == /\ Available(k, pdfq.libs)
                     /\ ~pdfq.does[k].raises
                     /\ pdfq.does[k].yield = "text"
        first == { k \in DOMAIN Strategies :
                     Yields(k) /\ \A j \in DOMAIN Strategies : j < k => ~Yields(j) }
    IN  pdfq.called =>
            /\ first = {} => pdfq.text = <<>>
            /\ \A k \in first :
                   pdfq.text = << CASE k = 1 -> "t1" [] k = 2 -> "t2" [] k = 3 -> "t3" >>

-----------------------------------------------------------------------------
\* C29: unique_path(D, F) returns F when D holds no F, and otherwise F with
\* the suffix _i for the smallest i >= 1 such that D holds no such name; so
\* once the name returned for F has been created as F itself, the next call
\* for F returns F_1 when that is free (the next free suffix otherwise) and F
\* is still in the directory.
C29_SmallestFreeSuffix ==
    LET want == probe.want
        Smallest(D, r) ==
            IF want \notin D THEN r = want
            ELSE \E i \in 1..(Cardinality(D) + 1) :
                     /\ r = [want EXCEPT !.sfx = Append(@, i)]
                     /\ r \notin D
                     /\ \A j \in 1..(i - 1) : [want EXCEPT !.sfx = Append(@, j)] \in D
        before == IF probe.created THEN probe.dir \ {probe.first} ELSE probe.dir
    IN  /\ probe.first # NoName => Smallest(before, probe.first)
        /\ probe.after # NoName =>
               /\ Smallest(probe.dir, probe.after)
               /\ probe.first \in probe.dir

\* The directory holds F, F_1 and F_1_1 but not F_2, and F_2 was returned.
C29_Witness ==
    /\ probe.want = Name("a", <<>>, "pdf")
    /\ ~probe.created
    /\ Name("a", <<>>, "pdf") \in probe.dir
    /\ Name("a", <<1>>, "pdf") \in probe.dir
    /\ Name("a", <<1, 1>>, "pdf") \in probe.dir
    /\ probe.first = Name("a", <<2>>, "pdf")

-----------------------------------------------------------------------------
\* C26: within one call of process_file the steps follow one another in the
\* order text extraction, date detection, topic detection, local copy
\* (directories, then the copy), secondary copy, notification, release: every
\* change of position inside the call goes to the next step or leaves the
\* call, a call that was left is not taken up again, each target is written
\* only in its own step, and the secondary copy, the notification and the
\* release are reached only with the complete local copy in place.
C26_StepOrder ==
    [][ LET order == <<"pf_infer", "pf_date", "pf_topic", "pf_mkdir", "pf_copy",
                       "pf_nas", "pf_notify", "pf_remove">>
            At(p) == { k \in DOMAIN order : order[k] = p }
            inside(p) == At(p) # {}
        IN  /\ (inside(pc) /\ pc' # pc) =>
                   \/ pc' \in {"pf_exit", "idle"}
                   \/ \E k \in At(pc) : k < Len(order) /\ pc' = order[k + 1]
            /\ (pc = "pf_exit" /\ pc' # pc) => ~inside(pc')
            /\ (inside(pc') /\ ~inside(pc)) => pc' = "pf_infer"
            /\ local' # local => pc = "pf_copy"
            /\ nas' # nas => pc = "pf_nas"
            /\ (pf'.mail # pf.mail /\ pf'.mail # "none") => pc = "pf_notify"
            /\ (pf'.released /\ ~pf.released) => pc = "pf_notify"
            /\ pc' \in {"pf_nas", "pf_notify", "pf_remove"} =>
                   /\ pf'.filed # NoName
                   /\ <<DocTopic(pf'.doc), pf'.filed>> \in DOMAIN local'
                   /\ local'[<<DocTopic(pf'.doc), pf'.filed>>] > 0 ]_vars

\* A call that went through every step: local copy, secondary copy and
\* notification done, release under way.
C26_Witness ==
    /\ pc = "pf_remove"
    /\ pf.filed # NoName
    /\ pf.nas = "copied"
    /\ pf.mail = "sent"
    /\ pf.released
    /\ tries > 0

\* C27: the quarantine directory gets an entry only in safe_remove, after
\* RemoveRetries attempts to delete the staged file have all failed, for a
\* file that is still in staging and was not deleted; it is one entry, a copy
\* of that file, and the call ends with it.  safe_remove makes no attempt
\* beyond the RemoveRetries-th, and a successful delete ends the call with
\* the quarantine untouched.
C27_QuarantineOnlyAfterRetries ==
    [][ /\ quarantine' # quarantine =>
               /\ pc = "pf_remove"
               /\ tries = RemoveRetries
               /\ cur \in DOMAIN staging
               /\ ~pf.deleted
               /\ \E dst \in (DOMAIN quarantine') \ (DOMAIN quarantine) :
                      quarantine' = Put(quarantine, dst, staging[cur])
               /\ pc' = "pf_exit"
        /\ (pc = "pf_remove" /\ pc' = "pf_remove" /\ tries' # tries) =>
               /\ tries' = tries + 1
               /\ tries' <= RemoveRetries
               /\ cur \in DOMAIN staging
               /\ staging' = staging
               /\ quarantine' = quarantine
        /\ (pf'.deleted /\ ~pf.deleted) =>
               /\ pc = "pf_remove"
               /\ pc' = "pf_exit"
               /\ quarantine' = quarantine
               /\ pf'.quarantined = NoName ]_vars

\* Every attempt failed and the staged file was moved to quarantine.
C27_Witness ==
    /\ pc = "pf_exit"
    /\ tries = RemoveRetries
    /\ pf.quarantined # NoName
    /\ pf.quarantined \in DOMAIN quarantine
    /\ cur \notin DOMAIN staging
    /\ ~pf.deleted

\* C25: whenever process_file writes a local copy, its name is the effective
\* date, "_", the topic and the extension of the staged file as it is
\* written there, with at most one numeric suffix before the extension, and
\* it lies in the directory of the topic.
C25_DeterministicName ==
    [][ local' # local =>
            \E key \in (DOMAIN local') \ (DOMAIN local) :
                /\ key[1] = DocTopic(pf.doc)
                /\ key[2].stem = DocDate(pf.doc) \o "_" \o DocTopic(pf.doc)
                /\ key[2].ext = cur.ext
                /\ \/ key[2].sfx = <<>>
                   \/ \E i \in 1..(Cardinality(DOMAIN local) + 1) : key[2].sfx = <<i>> ]_vars

-----------------------------------------------------------------------------
\* C31: when acquire_to_staging gives up after AcquireRetries attempts that
\* failed on the lock, it has changed nothing: no failed attempt and not the
\* return of None touches the source, staging, quarantine or target
\* directories, the source file is as it was, no process_file call starts,
\* and a name given up on is not staged or processed in the rest of the pass.
C31_GiveUpChangesNothing ==
    /\ [][(pc = "acquire" /\ pc' = "acquire" /\ tries' # tries) => fs' = fs]_vars
    /\ [][(pc = "acquire" /\ tries = AcquireRetries /\ pc' \notin {"acquire", "idle"}) =>
            /\ pc' = "scan"
            /\ fs' = fs
            /\ pf' = pf
            /\ cur \in gate'.failed
            /\ (cur \in DOMAIN source => source'[cur] = source[cur])]_vars
    /\ [][(pc' = "pf_infer" /\ pc # "pf_infer" /\ ret' = "scan") =>
            cur \notin gate.failed]_vars
    /\ [](gate.failed \cap gate.staged = {})

\* The pass gave up on a file that is still in the source directory and has
\* gone on to the end of the listing.
C31_Witness ==
    /\ gate.failed # {}
    /\ \E e \in gate.failed : e \in DOMAIN source /\ source[e].busy
    /\ pc = "scan"
    /\ todo = {}
    /\ staging = Empty
    /\ local = Empty

-----------------------------------------------------------------------------
\* acquire_to_staging on its own (file_ops.py), with the staging directory
\* there or not: nothing in the package creates it before the call, and
\* _process_staging_all asks whether it exists.

StagedName == Name("scan", <<>>, "pdf")

InitAcquire ==
    /\ Quiet
    /\ probe = NoProbe
    /\ dateq = NoDateQ
    /\ topicq = NoTopicQ
    /\ pdfq = NoPdfQ
    /\ \E b, d, t \in BOOLEAN :
           acq = [NoAcq EXCEPT !.src = TRUE, !.busy = b, !.dir = d,
                               !.names = IF d /\ t THEN {StagedName} ELSE {}]

\* target = unique_path(str(config.STAGING_DIR), Path(src_path).name): in a
\* directory that does not exist no path exists.
AcqCall ==
    /\ acq.at = "none"
    /\ acq' = [acq EXCEPT !.at = "loop",
                          !.target = unique_path(acq.names, StagedName)]
    /\ UNCHANGED <<fs, nextDoc, vanished, probe, dateq, topicq, pdfq, ctl, loopv, filev, pf, gate>>

\* What os.replace(src_path, target) can do: it raises FileNotFoundError when
\* the source is not there or the directory of the target is not there,
\* PermissionError when the source is held open, and renames otherwise.
ReplaceOutcomes(a) ==
    IF ~a.src THEN {"FileNotFoundError"}
    ELSE (IF ~a.dir THEN {"FileNotFoundError"} ELSE {})
           \cup (IF a.busy THEN {"PermissionError"} ELSE {})
           \cup (IF a.dir /\ ~a.busy THEN {"renamed"} ELSE {})

\* One iteration of the loop.
AcqAttempt ==
    /\ acq.at = "loop"
    /\ acq.tries < AcquireRetries
    /\ \E out \in ReplaceOutcomes(acq) :
         CASE out = "renamed" ->
                acq' = [acq EXCEPT !.at = "done", !.src = FALSE, !.staged = TRUE,
                                   !.names = @ \cup {acq.target}, !.ret = acq.target]
           [] out = "FileNotFoundError" ->
                acq' = [acq EXCEPT !.at = "done", !.ret = NoName]
           [] out = "PermissionError" ->
                acq' = [acq EXCEPT !.tries = @ + 1]
    /\ UNCHANGED <<fs, nextDoc, vanished, probe, dateq, topicq, pdfq, ctl, loopv, filev, pf, gate>>

\* The loop is over: log and return None.
AcqGiveUp ==
    /\ acq.at = "loop"
    /\ acq.tries = AcquireRetries
    /\ acq' = [acq EXCEPT !.at = "done", !.ret = NoName]
    /\ UNCHANGED <<fs, nextDoc, vanished, probe, dateq, topicq, pdfq, ctl, loopv, filev, pf, gate>>

\* The other processes while the loop sleeps: the source file is opened,
\* closed or taken away, the staging directory is created.
AcqEnv ==
    /\ acq.at = "loop"
    /\ \/ acq.src /\ acq' = [acq EXCEPT !.busy = ~@]
       \/ acq.src /\ acq' = [acq EXCEPT !.src = FALSE, !.busy = FALSE]
       \/ ~acq.dir /\ acq' = [acq EXCEPT !.dir = TRUE]
    /\ UNCHANGED <<fs, nextDoc, vanished, probe, dateq, topicq, pdfq, ctl, loopv, filev, pf, gate>>

NextAcquire == AcqCall \/ AcqAttempt \/ AcqGiveUp \/ AcqEnv

SpecAcquire == InitAcquire /\ [][NextAcquire]_vars

\* C32: acquire_to_staging returns None with attempts left only when the
\* source file is not at its path, and an attempt on a source file that is
\* there and not held open stages it, whether or not the staging directory
\* exists.
C32_EarlyNoneOnlyWhenGone ==
    [][(acq.at = "loop" /\ acq'.at = "done" /\ acq.tries < AcquireRetries) =>
          /\ acq'.ret = NoName => ~acq.src
          /\ (acq.src /\ ~acq.busy) =>
                 /\ acq'.staged
                 /\ acq'.ret = acq.target
                 /\ acq.target \in acq'.names]_vars

\* C33: in continuous mode the `seen` set of the previous listing does not
\* keep a file from being attempted: when a poll cycle comes to a file with an
\* allowed extension that lies in the source directory under the name of a
\* file staged in the preceding cycle, it takes its first size sample, the
\* first step towards staging it.
C33_ArrivalAfterStagingIsAttempted ==
    [][\A e \in todo \ todo' :
          (/\ pc = "scan"
           /\ mode = "watch"
           /\ pc' # "idle"
           /\ e \in gate.stagedPrev
           /\ e \in DOMAIN source
           /\ ValidExt(e)) => (pc' = "sample" /\ cur' = e)]_vars

\* C34: one-shot mode terminates.  A started one-shot run reaches the end of
\* the program whatever the locks do: a stage call counts at most
\* AcquireRetries failed renames, a release call at most RemoveRetries failed
\* deletes, and an iteration over a listing never adds an entry to what is
\* left of it.
C34_OneShotTerminates ==
    /\ (mode = "once" /\ pc # "idle") ~> (pc = "idle")
    /\ [](pc = "acquire" => tries <= AcquireRetries)
    /\ [](pc = "pf_remove" => tries <= RemoveRetries)
    /\ [][(mode = "once" /\ pc \in {"sweep", "scan"} /\ pc' = pc) => todo' \subseteq todo]_vars

\* A one-shot run that came to its end after a release call that used up its
\* deletes and moved the staged file to quarantine.
C34_Witness ==
    /\ mode = "once"
    /\ pc = "idle"
    /\ exit = "finished"
    /\ quarantine # Empty
    /\ staging = Empty

====
